---- MODULE Spec2Model ----
(***************************************************************************)
(* Model of src/src/ir/LocalGraph.cpp: the reaching-definitions flow of    *)
(* LocalGraphInternal::Flower (local.get -> the local.sets that reach it)  *)
(* and the queries of LocalGraph built on its result (equivalent,          *)
(* computeSetInfluences, computeGetInfluences, computeSSAIndexes, isSSA). *)
(*                                                                         *)
(* A function is given as the control-flow graph the CFG walk leaves       *)
(* behind: basic blocks 1..n, block 1 the entry, each with its actions     *)
(* (local.gets and local.sets in execution order) and its predecessor      *)
(* blocks.  An expression is named by its place <<block, position>>;       *)
(* nullptr is NULL.  The initial state is the state when                   *)
(* doWalkFunction has returned and Flower::flow is about to start.         *)
(***************************************************************************)
EXTENDS Integers, Sequences, FiniteSets, TLC

\* ------------------------------------------------------------ bounds
\* number of locals (parameters and variables) of the analysed function
NumLocals == 2
\* the family of functions the flow is explored on
FlowBlocks == 3
FlowNodes == 3
\* the family of functions the queries are explored on
QueryBlocks == 2
QueryNodes == 3

\* ---------------------------------------------------------- constants
NULL_ITERATION == -1
NULL == <<0, 0>>
entry == 1
Types == {"i32", "i64"}
Locals == 0 .. (NumLocals - 1)

VARIABLES
  actions,      \* block -> its actions: [kind, index, span]
  in,           \* block -> its predecessor blocks
  numParams,    \* func: locals below this index are parameters
  localTypes,   \* func: index -> type
  pc,           \* where Flower::flow / the caller stands
  blockIdx,     \* the block of the outer for loop of flow
  index,        \* the index of the inner for loop of flow
  allGets,      \* index -> the gets still looking for their sets
  work,         \* the work list of the current search
  lastTraversedIteration,
  currentIteration,
  getSetses,    \* get -> the sets (or NULL) that reach it
  pops,         \* history: block -> times taken from work in this search
  setInfluences,
  getInfluences,
  SSAIndexes,
  ran,          \* history: the compute* methods that have run
  reran,        \* history: some compute* method has run a second time
  ret           \* the last query's call and what it returned

vars == <<actions, in, numParams, localTypes, pc, blockIdx, index, allGets,
          work, lastTraversedIteration, currentIteration, getSetses, pops,
          setInfluences, getInfluences, SSAIndexes, ran, reran, ret>>

funcVars == <<actions, in, numParams, localTypes>>
flowVars == <<blockIdx, index, allGets, work, lastTraversedIteration,
              currentIteration, pops>>
queryVars == <<setInfluences, getInfluences, SSAIndexes, ran, reran, ret>>

\* ------------------------------------------------------- the function
Blocks == DOMAIN actions

SeqsUpTo(S, n) == UNION {[1 .. k -> S] : k \in 0 .. n}

Action(maxSpan) ==
  [kind : {"get", "set"}, index : Locals, span : 0 .. maxSpan]

\* A set's value is the subtree evaluated just before it: the span actions
\* that precede it in its block.  Subtrees nest, and a get has no children.
WellFormed(s) ==
  \A i \in 1 .. Len(s) :
    /\ s[i].kind = "get" => s[i].span = 0
    /\ s[i].span <= i - 1
    /\ \A j \in (i - s[i].span) .. (i - 1) : j - s[j].span >= i - s[i].span

RECURSIVE SumLen(_, _)
SumLen(f, bs) ==
  IF bs = {} THEN 0
  ELSE LET b == CHOOSE c \in bs : TRUE IN Len(f[b]) + SumLen(f, bs \ {b})

Functions(nBlocks, maxNodes, maxSpan) ==
  {f \in [1 .. nBlocks -> {s \in SeqsUpTo(Action(maxSpan), maxNodes) : WellFormed(s)}] :
     SumLen(f, 1 .. nBlocks) <= maxNodes}

\* The entry block is the first block the walk starts and nothing links to it.
Graphs(nBlocks) ==
  {g \in [1 .. nBlocks -> SUBSET (1 .. nBlocks)] : g[entry] = {}}

\* Flower::doVisitLocalGet / doVisitLocalSet: every get and set of a block
Locations ==
  UNION {{<<b, i>> : i \in 1 .. Len(actions[b])} : b \in Blocks}

KindOf(n) == actions[n[1]][n[2]].kind
IndexOf(n) == actions[n[1]][n[2]].index
Gets == {n \in Locations : KindOf(n) = "get"}
Sets == {n \in Locations : KindOf(n) = "set"}

\* Info::lastSets of a block, as flow copies it into FlowBlock::lastSets
SetsIn(b, x) ==
  {i \in 1 .. Len(actions[b]) : actions[b][i].kind = "set" /\ actions[b][i].index = x}

HasLastSet(b, x) == SetsIn(b, x) # {}

LastSet(b, x) ==
  <<b, CHOOSE i \in SetsIn(b, x) : \A j \in SetsIn(b, x) : j <= i>>

\* --------------------------------------------------------- getSetses
\* getSetses[get], which creates an empty entry when there is none
Touch(gs, gets) ==
  [g \in (DOMAIN gs) \cup gets |-> IF g \in DOMAIN gs THEN gs[g] ELSE {}]

\* for (auto* get : gets) getSetses[get].insert(set)
InsertAll(gs, gets, set) ==
  [g \in (DOMAIN gs) \cup gets |->
     IF g \in gets
       THEN (IF g \in DOMAIN gs THEN gs[g] ELSE {}) \cup {set}
       ELSE gs[g]]

\* what a reader of the map finds for a get (no entry: no sets)
SetsOf(gs, g) == IF g \in DOMAIN gs THEN gs[g] ELSE {}

\* -------------------------------------------------------------- flow
\* the backward scan of one block's actions, from action i down to the first
RECURSIVE ScanActions(_, _, _, _)
ScanActions(b, i, gets, gs) ==
  IF i = 0 THEN [gets |-> gets, gs |-> gs]
  ELSE LET a == actions[b][i] IN
    IF a.kind = "get"
      THEN ScanActions(b, i - 1, [gets EXCEPT ![a.index] = @ \cup {<<b, i>>}], gs)
      ELSE ScanActions(b, i - 1, [gets EXCEPT ![a.index] = {}],
                       InsertAll(gs, gets[a.index], <<b, i>>))

\* faulty variants of Seen: a mark that is never reset between searches, and no mark
SeenInAnySearch(lti, pred) == lti[pred] # NULL_ITERATION

SeenNever(lti, pred) == FALSE

\* pred->lastTraversedIteration == currentIteration
Seen(lti, pred) == lti[pred] = currentIteration

\* faulty variant of RecordsImplicit: every block without predecessors
RecordsImplicitAtAnyRoot(curr) == TRUE

\* curr == entryFlowBlock
RecordsImplicit(curr) == curr = entry

\* for (auto* pred : curr->in), in ascending order of the blocks
RECURSIVE FlowPreds(_, _)
FlowPreds(ps, st) ==
  IF ps = {} THEN st
  ELSE LET pred == CHOOSE p \in ps : \A q \in ps : p <= q
           rest == ps \ {pred}
       IN IF Seen(st.lti, pred) THEN FlowPreds(rest, st)
          ELSE LET lti2 == [st.lti EXCEPT ![pred] = currentIteration] IN
            IF HasLastSet(pred, index)
              THEN FlowPreds(rest,
                     [lti |-> lti2,
                      gs |-> InsertAll(st.gs, allGets[index], LastSet(pred, index)),
                      work |-> st.work])
              ELSE FlowPreds(rest,
                     [lti |-> lti2, gs |-> st.gs, work |-> Append(st.work, pred)])

\* the indexes, from i on, that still have gets to flow
Pending(i) == {x \in Locals : x >= i /\ allGets[x] # {}}

\* ret.computed is history: whether computeSSAIndexes had run at the call
NoRet ==
  [op |-> "none", a |-> NULL, b |-> NULL, x |-> 0, val |-> FALSE,
   computed |-> FALSE]

InitOver(nBlocks, maxNodes, maxSpan, sigs) ==
  /\ actions \in Functions(nBlocks, maxNodes, maxSpan)
  /\ in \in Graphs(nBlocks)
  /\ \E s \in sigs : numParams = s.numParams /\ localTypes = s.localTypes
  /\ pc = "block"
  /\ blockIdx = 1
  /\ index = 0
  /\ allGets = [x \in Locals |-> {}]
  /\ work = <<>>
  /\ lastTraversedIteration = [b \in 1 .. nBlocks |-> NULL_ITERATION]
  /\ currentIteration = 0
  /\ getSetses = <<>>
  /\ pops = [b \in 1 .. nBlocks |-> 0]
  /\ setInfluences = <<>>
  /\ getInfluences = <<>>
  /\ SSAIndexes = {}
  /\ ran = {}
  /\ reran = FALSE
  /\ ret = NoRet

\* func: how many of the locals are parameters, and each local's type
Signatures ==
  [numParams : 0 .. NumLocals, localTypes : [Locals -> Types]]

PlainSignature ==
  {[numParams |-> 0, localTypes |-> [x \in Locals |-> "i32"]]}

\* for (auto& block : flowBlocks): the backward scan of the block's actions
ScanBlock ==
  /\ pc = "block"
  /\ LET r == ScanActions(blockIdx, Len(actions[blockIdx]), allGets, getSetses) IN
       /\ allGets' = r.gets
       /\ getSetses' = r.gs
  /\ index' = 0
  /\ pc' = "flow"
  /\ UNCHANGED <<funcVars, blockIdx, work, lastTraversedIteration,
                 currentIteration, pops, queryVars>>

\* for (index ...): the next index with gets left starts a search at this block
StartSearch ==
  /\ pc = "flow"
  /\ Pending(index) # {}
  /\ index' = CHOOSE x \in Pending(index) : \A y \in Pending(index) : x <= y
  /\ work' = <<blockIdx>>
  /\ pops' = [b \in Blocks |-> 0]
  /\ pc' = "search"
  /\ UNCHANGED <<funcVars, blockIdx, allGets, lastTraversedIteration,
                 currentIteration, getSetses, queryVars>>

\* while (!work.empty()): one block taken from the work list and handled;
\* when that empties the list, gets.clear() and currentIteration++
Pop ==
  /\ pc = "search"
  /\ work # <<>>
  /\ LET curr == work[Len(work)]
         rest == SubSeq(work, 1, Len(work) - 1)
         st == IF in[curr] = {}
                 THEN [lti |-> lastTraversedIteration,
                       gs |-> IF RecordsImplicit(curr)
                                THEN InsertAll(getSetses, allGets[index], NULL)
                                ELSE getSetses,
                       work |-> rest]
                 ELSE FlowPreds(in[curr],
                        [lti |-> lastTraversedIteration, gs |-> getSetses,
                         work |-> rest])
     IN /\ pops' = [pops EXCEPT ![curr] = @ + 1]
        /\ lastTraversedIteration' = st.lti
        /\ getSetses' = st.gs
        /\ work' = st.work
        /\ IF st.work = <<>>
             THEN /\ allGets' = [allGets EXCEPT ![index] = {}]
                  /\ currentIteration' = currentIteration + 1
                  /\ index' = index + 1
                  /\ pc' = "flow"
             ELSE UNCHANGED <<allGets, currentIteration, index, pc>>
  /\ UNCHANGED <<funcVars, blockIdx, queryVars>>

\* no index has gets left: on to the next block, or flow returns
EndBlock ==
  /\ pc = "flow"
  /\ Pending(index) = {}
  /\ IF blockIdx < Cardinality(Blocks)
       THEN blockIdx' = blockIdx + 1 /\ pc' = "block"
       ELSE blockIdx' = blockIdx /\ pc' = "done"
  /\ index' = 0
  /\ pops' = [b \in Blocks |-> 0]
  /\ UNCHANGED <<funcVars, allGets, work, lastTraversedIteration,
                 currentIteration, getSetses, queryVars>>

InitFlow == InitOver(FlowBlocks, FlowNodes, 0, PlainSignature)

NextFlow == ScanBlock \/ StartSearch \/ Pop \/ EndBlock

SpecFlow == InitFlow /\ [][NextFlow]_vars

\* ------------------------------------------------------------ queries
\* func->isParam(index)
IsParam(x) == x < numParams

\* LocalGraph::equivalent(a, b), computed on the sets found for a and b
EquivalentVal(aSets, bSets, a, b) ==
  IF Cardinality(aSets) # 1 \/ Cardinality(bSets) # 1 THEN FALSE
  ELSE LET aSet == CHOOSE s \in aSets : TRUE
           bSet == CHOOSE s \in bSets : TRUE
       IN IF aSet # bSet THEN FALSE
          ELSE IF aSet = NULL
            THEN IF IsParam(IndexOf(a))
                   THEN IndexOf(a) = IndexOf(b)
                   ELSE localTypes[IndexOf(a)] = localTypes[IndexOf(b)]
            ELSE TRUE

\* setInfluences[set].insert(get) for every located get and each of its sets
SetInfluencesOf(gs, old) ==
  LET keys == (DOMAIN old) \cup UNION {SetsOf(gs, g) : g \in Gets}
  IN [s \in keys |->
        (IF s \in DOMAIN old THEN old[s] ELSE {})
          \cup {g \in Gets : s \in SetsOf(gs, g)}]

\* FindAll<LocalGet>(set->value): the gets inside the set's value
ValueGets(s) ==
  {n \in Gets : n[1] = s[1] /\ n[2] < s[2] /\ n[2] >= s[2] - actions[s[1]][s[2]].span}

\* getInfluences[get].insert(set) for every located set and each get in its value
GetInfluencesOf(old) ==
  LET keys == (DOMAIN old) \cup UNION {ValueGets(s) : s \in Sets}
  IN [g \in keys |->
        (IF g \in DOMAIN old THEN old[g] ELSE {})
          \cup {s \in Sets : g \in ValueGets(s)}]

\* faulty variant of IndexSets: a get with an empty entry counts as a get of NULL
IndexSetsEmptyAsImplicit(gs) ==
  [x \in Locals |->
     UNION {(IF gs[g] = {} THEN {NULL} ELSE gs[g]) :
              g \in {h \in DOMAIN gs : IndexOf(h) = x}}]

\* the first loop of computeSSAIndexes: index -> every set (or NULL) found
\* for some get of the index
IndexSets(gs) ==
  [x \in Locals |-> UNION {gs[g] : g \in {h \in DOMAIN gs : IndexOf(h) = x}}]

\* faulty variant of ClearOthers: the second loop left out
ClearNone(ss, indexSets) == indexSets

\* the second loop of computeSSAIndexes, over the located sets in some order:
\* an index whose one set is not this set is cleared
RECURSIVE ClearOthers(_, _)
ClearOthers(ss, indexSets) ==
  IF ss = {} THEN indexSets
  ELSE LET curr == CHOOSE s \in ss : TRUE
           sets == indexSets[IndexOf(curr)]
       IN ClearOthers(ss \ {curr},
            IF Cardinality(sets) = 1 /\ sets # {curr}
              THEN [indexSets EXCEPT ![IndexOf(curr)] = {}]
              ELSE indexSets)

\* the third loop of computeSSAIndexes: the indexes left with exactly one set
SSAIndexesOf(gs) ==
  LET indexSets == ClearOthers(Sets, IndexSets(gs))
  IN {x \in Locals : Cardinality(indexSets[x]) = 1}

Ran(what) ==
  /\ ran' = ran \cup {what}
  /\ reran' = (reran \/ what \in ran)

\* bool LocalGraph::equivalent(LocalGet* a, LocalGet* b)
Equivalent(a, b) ==
  /\ pc = "done"
  /\ getSetses' = Touch(getSetses, {a, b})
  /\ ret' = [op |-> "equivalent", a |-> a, b |-> b, x |-> 0,
             val |-> EquivalentVal(SetsOf(getSetses, a), SetsOf(getSetses, b), a, b),
             computed |-> FALSE]
  /\ UNCHANGED <<funcVars, pc, flowVars, setInfluences, getInfluences,
                 SSAIndexes, ran, reran>>

\* void LocalGraph::computeSetInfluences()
ComputeSetInfluences ==
  /\ pc = "done"
  /\ getSetses' = Touch(getSetses, Gets)
  /\ setInfluences' = SetInfluencesOf(getSetses, setInfluences)
  /\ Ran("SetInfluences")
  /\ UNCHANGED <<funcVars, pc, flowVars, getInfluences, SSAIndexes, ret>>

\* void LocalGraph::computeGetInfluences()
ComputeGetInfluences ==
  /\ pc = "done"
  /\ getInfluences' = GetInfluencesOf(getInfluences)
  /\ Ran("GetInfluences")
  /\ UNCHANGED <<funcVars, pc, flowVars, getSetses, setInfluences, SSAIndexes, ret>>

\* void LocalGraph::computeSSAIndexes()
ComputeSSAIndexes ==
  /\ pc = "done"
  /\ SSAIndexes' = SSAIndexes \cup SSAIndexesOf(getSetses)
  /\ Ran("SSAIndexes")
  /\ UNCHANGED <<funcVars, pc, flowVars, getSetses, setInfluences, getInfluences, ret>>

\* bool LocalGraph::isSSA(Index x)
IsSSA(x) ==
  /\ pc = "done"
  /\ ret' = [op |-> "isSSA", a |-> NULL, b |-> NULL, x |-> x,
             val |-> x \in SSAIndexes, computed |-> "SSAIndexes" \in ran]
  /\ UNCHANGED <<funcVars, pc, flowVars, getSetses, setInfluences,
                 getInfluences, SSAIndexes, ran, reran>>

\* The queries run on functions whose sets have values of every shape; the
\* signature, which only equivalent reads, varies in SpecEquivalent.
Init == InitOver(QueryBlocks, QueryNodes, QueryNodes - 1, PlainSignature)

Next ==
  \/ ScanBlock
  \/ StartSearch
  \/ Pop
  \/ EndBlock
  \/ \E a \in Gets : \E b \in Gets : Equivalent(a, b)
  \/ ComputeSetInfluences
  \/ ComputeGetInfluences
  \/ ComputeSSAIndexes
  \/ \E x \in Locals : IsSSA(x)

Spec == Init /\ [][Next]_vars

InitEquivalent == InitOver(QueryBlocks, QueryNodes, 0, Signatures)

NextEquivalent ==
  \/ ScanBlock
  \/ StartSearch
  \/ Pop
  \/ EndBlock
  \/ \E a \in Gets : \E b \in Gets : Equivalent(a, b)

SpecEquivalent == InitEquivalent /\ [][NextEquivalent]_vars

SpecFlowFair == SpecFlow /\ WF_vars(NextFlow)

\* ------------------------------------------------- reference semantics
\* The reaching sets read off the graph, without the work list: b's start is
\* reached write-free from the blocks T when a path of edges leads there from
\* a block of T through blocks that hold no set of x.
NoWrite(b, x) == SetsIn(b, x) = {}

Successors(T) == {c \in Blocks : in[c] \cap T # {}}

RECURSIVE StartsReached(_, _)
StartsReached(T, x) ==
  LET more == T \cup Successors({b \in T : NoWrite(b, x)})
  IN IF more = T THEN T ELSE StartsReached(more, x)

RECURSIVE Closure(_)
Closure(T) ==
  LET more == T \cup Successors(T) IN IF more = T THEN T ELSE Closure(more)

\* the blocks some control-flow path from the function entry enters
Reachable == Closure({entry})

\* the nearest set of the get's index before it in its own block, if any
SetsBefore(g) == {i \in SetsIn(g[1], IndexOf(g)) : i < g[2]}

NearestBefore(g) ==
  <<g[1], CHOOSE i \in SetsBefore(g) : \A j \in SetsBefore(g) : j <= i>>

\* the sets that can be the most recent write before g on a path that starts
\* in one of the blocks `from`, and NULL when a path from the entry has none
ReachingOrigins(g, from) ==
  LET x == IndexOf(g) IN
  IF SetsBefore(g) # {}
    THEN (IF g[1] \in from THEN {NearestBefore(g)} ELSE {})
    ELSE {LastSet(b, x) : b \in {c \in from : HasLastSet(c, x)
                                   /\ g[1] \in StartsReached(Successors({c}), x)}}
         \cup (IF g[1] \in StartsReached({entry}, x) THEN {NULL} ELSE {})

\* ------------------------------------------------------------ claims
\* C1: after construction the set recorded for every tracked get is exactly
\* (stated for the gets of the blocks reachable from the entry)
\* the sets that can be the most recent write of its index on some path from
\* the function entry to the get, plus NULL when some path from the entry
\* holds no set of the index.
C1_ExactFromEntry ==
  pc = "done" =>
    \A g \in Gets :
      g[1] \in Reachable => SetsOf(getSetses, g) = ReachingOrigins(g, Reachable)

\* The same with the paths taken over the graph as given, blocks that no
\* path from the entry enters included: this is what flow computes.
FlowExactOverGraph ==
  pc = "done" =>
    \A g \in Gets : SetsOf(getSetses, g) = ReachingOrigins(g, Blocks)

\* C2: once flow has completed, every get in a block reachable from the entry
\* has at least one set (or NULL) recorded.
C2_ReachableGetsHaveOrigins ==
  pc = "done" =>
    \A g \in Gets : g[1] \in Reachable => SetsOf(getSetses, g) # {}

\* a get of a reachable block that is not the entry has its origins recorded
C2_Witness ==
  /\ pc = "done"
  /\ \E g \in Gets : g[1] \in Reachable /\ g[1] # entry /\ SetsOf(getSetses, g) # {}

\* the block a search is about to take from the work list
Top == work[Len(work)]

AtRoot == pc = "search" /\ work # <<>> /\ in[Top] = {}

C10_NoBlockTwice ==
  blockIdx \in Reachable => \A b \in Blocks : pops[b] <= 1

\* C10 as amended: every search ends, and within one search a block is taken
\* from the work list at most once, except the block the search starts from,
\* which is taken at most twice.
C10_StartBlockAtMostTwice ==
  /\ [](\A b \in Blocks : pops[b] <= (IF b = blockIdx THEN 2 ELSE 1))
  /\ [](pc = "search" => <>(pc = "flow"))

\* a search took its start block a second time, through a loop, and ended
C10_Witness == pc = "flow" /\ blockIdx \in Reachable /\ pops[blockIdx] = 2

\* ---- the queries' claims
\* the sets found for some get of index x
OriginsOfIndex(x) ==
  UNION {SetsOf(getSetses, g) : g \in {h \in Gets : IndexOf(h) = x}}

WritesOf(x) == {s \in Sets : IndexOf(s) = x}

\* C3: equivalent(a, b) returns true exactly when both gets have exactly one
\* origin, the two are the same, and that origin is a set, or it is NULL and
\* both gets read the same parameter or both read non-parameter locals of the
\* same type.
C3_EquivalentExact ==
  ret.op = "equivalent" =>
    (ret.val <=>
       /\ Cardinality(SetsOf(getSetses, ret.a)) = 1
       /\ SetsOf(getSetses, ret.a) = SetsOf(getSetses, ret.b)
       /\ \/ SetsOf(getSetses, ret.a) # {NULL}
          \/ IsParam(IndexOf(ret.a)) /\ IndexOf(ret.a) = IndexOf(ret.b)
          \/ /\ ~IsParam(IndexOf(ret.a)) /\ ~IsParam(IndexOf(ret.b))
             /\ localTypes[IndexOf(ret.a)] = localTypes[IndexOf(ret.b)])

\* C4: after computeSSAIndexes, isSSA(x) is true exactly when x has exactly
\* one set and that set is the one origin of every get of x; stated here for
\* the case the claim singles out: isSSA(x) is false for an index that has no
\* set at all, whose gets resolve to NULL only.
C4_NoWriteIsNotSSA ==
  (ret.op = "isSSA" /\ ret.computed /\ WritesOf(ret.x) = {}) => ~ret.val

C6_IsSSABeforeComputeFails ==
  ~(ret.op = "isSSA" /\ ~ret.computed /\ ret.val \in BOOLEAN)

\* C7: once construction has finished no query changes the get -> sets map,
\* neither its keys nor its values.
C7_QueriesLeaveGetSetses ==
  [][pc = "done" => getSetses' = getSetses]_vars

\* C8: running computeSetInfluences, computeGetInfluences or
\* computeSSAIndexes again, in any interleaving with the other queries,
\* leaves setInfluences, getInfluences and SSAIndexes as the first run of
\* each left them.
C8_RecomputeIdempotent ==
  [][/\ "SetInfluences" \in ran => setInfluences' = setInfluences
     /\ "GetInfluences" \in ran => getInfluences' = getInfluences
     /\ "SSAIndexes" \in ran => SSAIndexes' = SSAIndexes]_vars

\* all three have run, one of them twice, over non-empty results
C8_Witness ==
  /\ ran = {"SetInfluences", "GetInfluences", "SSAIndexes"}
  /\ reran
  /\ setInfluences # <<>> /\ getInfluences # <<>> /\ SSAIndexes # {}

====
